---- MODULE Spec2Model ----
(***************************************************************************)
(* Retrieval-augmented question answering over per-project corpora:        *)
(* document ingestion (Celery task), document removal (DELETE endpoint),   *)
(* BM25 snapshot rebuild, the Redis answer cache, the one-shot query and   *)
(* the streaming (SSE) query with its conversation log.                    *)
(*                                                                         *)
(* Every process is cut at the points where it touches shared state        *)
(* (Chroma collection, MinIO blob, Redis, SQL rows) or suspends (yield /   *)
(* await); the outcome of every call to an external collaborator (loader,  *)
(* vector store, blob store, cache, generation model) is a nondeterministic*)
(* choice between the results that call can produce.                       *)
(***************************************************************************)
EXTENDS Integers, Sequences, FiniteSets, TLC

\* ------------------------------------------------------------------ bounds
\* d0 may be in the corpus from the start, d1 is uploaded during the run
Docs == {"d0", "d1"}
NewDocs == {"d1"}
Projects == {"p1", "p2"}
Messages == {"m1"}
Requests == {"r1", "r2"}
\* the requests that may come through the streaming endpoint
StreamRequests == {"r1"}
Rebuilders == {1, 2}
\* the project whose corpus is ingested, removed and queried
ActiveProject == "p1"
\* failures of external calls (loader, vector store, blob store, cache,
\* generation model) injected in one run
MaxFaults == 1

\* length of the ranked lists the source list is made from
MaxRank == 3

\* ------------------------------------------------------- program constants
TopK == 5
NoInfoAnswer == <<"n">>
ErrorMessage == "An error occurred while generating the response."

NoProject == "none"

\* ------------------------------------------------------------------- state
VARIABLES
    documents,      \* SQL rows of models.Document: status and project_id
    dense,          \* Chroma collection of each project: a set of chunks
    bm25blob,       \* MinIO object _internal/<project>/bm25_retriever.pkl
    cache,          \* Redis keys rag_cache:<project>:<sha256(message)>
    task,           \* process_document_task, one per document
    del,            \* delete_document request, one per document
    rebuildQueue,   \* rebuild_project_index_task messages waiting in Celery
    rebuilder,      \* rebuild_project_index_task instances that are running
    qry,            \* RAGService.query calls
    denseVer,       \* history: number of writes applied to each collection
    invalidatedVer, \* history: newest write whose invalidation deleted keys
    rebuildReads,   \* history: chunk sets read by rebuilds of each project
    faults,         \* history: failures of external calls so far
    sessions,       \* SQL rows of models.ChatSession
    messages,       \* SQL rows of models.ChatMessage, in commit order
    chat,           \* handle_chat_query requests
    strm,           \* handle_streaming_chat_query requests and their generators
    ranking,        \* final_docs: a ranked list of retrieved chunks
    citations       \* the source list made from it, and whether it is made

vars == <<documents, dense, bm25blob, cache, task, del, rebuildQueue,
          rebuilder, qry, denseVer, invalidatedVer, rebuildReads, faults,
          sessions, messages, chat, strm, ranking, citations>>

rankVars == <<ranking, citations>>
indexVars == <<documents, dense, bm25blob, task, del, rebuildQueue, rebuilder,
               denseVer, invalidatedVer, rebuildReads>>
chatVars == <<sessions, messages, chat, strm>>

\* ----------------------------------------------------------------- helpers
\* An external call either succeeds or is one more failure of the run.
Outcome(ok) ==
    /\ ok \/ faults < MaxFaults
    /\ faults' = IF ok THEN faults ELSE faults + 1

Max(a, b) == IF a >= b THEN a ELSE b
Min(a, b) == IF a <= b THEN a ELSE b

Statuses == {"PENDING", "PROCESSING", "COMPLETED", "FAILED"}

\* A Document row exists between create_document and db.delete.
DocExists(d) == documents[d].status \in Statuses

\* The chunks the loader and the splitter produce for a document that has
\* text, tagged with its document_id; the text of a chunk may also occur in
\* another document.
ChunkTexts(d) == IF d = "d0" THEN {"t1", "t2"} ELSE {"t2"}
LoadedChunks(d) == {[document_id |-> d, text |-> t] : t \in ChunkTexts(d)}

\* crud.update_document_status: writes the status only if the row exists.
update_document_status(rows, d, s) ==
    IF rows[d].status \in Statuses THEN [rows EXCEPT ![d].status = s] ELSE rows

\* Variant of InvalidatedCache whose scan pattern is rag_cache:* : the keys
\* of every project are deleted.
InvalidatedCache_allProjects(c, p) == {}

\* RAGService._invalidate_query_cache, when the scan and the delete ran:
\* every key rag_cache:<project>:* is gone.
InvalidatedCache(c, p) == {e \in c : e.project # p}

\* What _invalidate_query_cache leaves in Redis: "done" when scan_iter and
\* delete ran, "skipped" when redis_client is None or the call raised (caught).
_invalidate_query_cache(c, p, outcome) ==
    IF outcome = "done" THEN InvalidatedCache(c, p) ELSE c

NoBlob == [present |-> FALSE, docs |-> {}]

\* RAGService._get_all_project_docs_from_chroma: the whole collection, or the
\* empty list when the vector store raised.
_get_all_project_docs_from_chroma(p, ok) == IF ok THEN dense[p] ELSE {}

\* Mutant: the upload is not all-or-nothing, a failed upload leaves a blob
\* cut short after its first chunk.
PersistedBlob_truncated(old, all_docs, outcome) ==
    IF outcome = "raise" THEN old
    ELSE IF all_docs = {} THEN IF outcome = "ok" THEN [present |-> FALSE, docs |-> {}] ELSE old
    ELSE IF outcome = "ok" THEN [present |-> TRUE, docs |-> all_docs]
    ELSE [present |-> TRUE, docs |-> {CHOOSE c \in all_docs : TRUE}]

\* Mutant: a rebuild that read no chunk stores a retriever built from nothing.
PersistedBlob_emptyStructure(old, all_docs, outcome) ==
    IF outcome # "ok" THEN old ELSE [present |-> TRUE, docs |-> all_docs]

\* The write half of RAGService.rebuild_and_persist_bm25_index: delete the blob
\* when no chunk was read, otherwise overwrite it with the pickled retriever
\* built from all chunks read.  "false" is a ClientError swallowed by the
\* storage service, "raise" any other exception of the storage call.
PersistedBlob(old, all_docs, outcome) ==
    IF outcome # "ok" THEN old
    ELSE IF all_docs = {} THEN NoBlob
    ELSE [present |-> TRUE, docs |-> all_docs]

\* ensured: _ensure_ollama_model_is_available has returned in this task.
IdleTask == [pc |-> "none", chunks |-> {}, wver |-> 0, all_docs |-> {},
             ensured |-> FALSE]
IdleDelete == [pc |-> "idle", ids |-> {}, wver |-> 0, before |-> {}]
IdleRebuilder == [pc |-> "idle", project |-> NoProject, all_docs |-> {}]
\* load: what _load_bm25_retriever gave the call in progress; err: the call
\* whose exception ended the query.
IdleQuery == [pc |-> "idle", project |-> NoProject, message |-> "none",
              redis |-> FALSE, hit |-> FALSE, load |-> "none",
              bm25 |-> NoBlob, final_docs |-> {}, ver |-> 0,
              answer |-> <<>>, sources |-> {}, err |-> "none"]

\* Project.llm_provider: the active project uses the locally hosted model.
llm_provider(p) == IF p = ActiveProject THEN "ollama" ELSE "groq"

\* --------------------------------------------------------------- ingestion
\* upload_document / upload_url: create the Document row (status PENDING) and
\* enqueue process_document_task.
UploadDocument(d, p) ==
    /\ documents[d].status = "NONE"
    /\ documents' = [documents EXCEPT ![d] = [status |-> "PENDING", project_id |-> p]]
    /\ task' = [task EXCEPT ![d].pc = "queued"]
    /\ UNCHANGED <<dense, bm25blob, cache, del, rebuildQueue, rebuilder, qry,
                   denseVer, invalidatedVer, rebuildReads, faults,
                   sessions, messages, chat, strm>>
    /\ UNCHANGED rankVars

\* Mutant: the task starts to work without recording PROCESSING.
TaskStart_noProcessing(d) ==
    /\ task[d].pc = "queued"
    /\ task' = [task EXCEPT ![d].pc = "load"]
    /\ UNCHANGED <<documents, dense, bm25blob, cache, del, rebuildQueue, rebuilder, qry,
                   denseVer, invalidatedVer, rebuildReads, faults,
                   sessions, messages, chat, strm>>
    /\ UNCHANGED rankVars

\* process_document_task, lines 26-41: status PROCESSING, user and project
\* looked up (projects are never deleted), RAGService built.
TaskStart(d) ==
    /\ task[d].pc = "queued"
    /\ documents' = update_document_status(documents, d, "PROCESSING")
    /\ task' = [task EXCEPT ![d].pc = "load"]
    /\ UNCHANGED <<dense, bm25blob, cache, del, rebuildQueue, rebuilder, qry,
                   denseVer, invalidatedVer, rebuildReads, faults,
                   sessions, messages, chat, strm>>
    /\ UNCHANGED rankVars

\* Variant of TaskLoad in which the cache is invalidated before the test for
\* an empty load.
TaskLoad_emptyInvalidates(d, outcome) ==
    /\ task[d].pc = "load"
    /\ IF outcome = "raise"
         THEN /\ documents' = update_document_status(documents, d, "FAILED")
              /\ task' = [task EXCEPT ![d].pc = "done"]
              /\ UNCHANGED cache
         ELSE /\ UNCHANGED documents
              /\ cache' = IF outcome = "empty"
                            THEN InvalidatedCache(cache, documents[d].project_id)
                            ELSE cache
              /\ task' = [task EXCEPT ![d].pc = IF outcome = "empty" THEN "rebuild_read" ELSE "add",
                                      ![d].ensured = llm_provider(documents[d].project_id) = "ollama",
                                      ![d].chunks = IF outcome = "empty" THEN {} ELSE LoadedChunks(d)]
    /\ Outcome(outcome # "raise")
    /\ UNCHANGED <<dense, bm25blob, del, rebuildQueue, rebuilder, qry,
                   denseVer, invalidatedVer, rebuildReads,
                   sessions, messages, chat, strm>>
    /\ UNCHANGED rankVars

\* process_document, lines 98-117: model check, download, load, split.
\* "raise": the model check, the loader or the splitter raised, the task's
\* handler records FAILED.  "empty": no docs or no chunks, process_document
\* returns and the task goes on to the rebuild.  "chunks": chunks to add.
TaskLoad(d, outcome) ==
    /\ task[d].pc = "load"
    /\ IF outcome = "raise"
         THEN /\ documents' = update_document_status(documents, d, "FAILED")
              /\ task' = [task EXCEPT ![d].pc = "done"]
         ELSE /\ UNCHANGED documents
              /\ task' = [task EXCEPT ![d].pc = IF outcome = "empty" THEN "rebuild_read" ELSE "add",
                                      ![d].ensured = llm_provider(documents[d].project_id) = "ollama",
                                      ![d].chunks = IF outcome = "empty" THEN {} ELSE LoadedChunks(d)]
    /\ Outcome(outcome # "raise")
    /\ UNCHANGED <<dense, bm25blob, cache, del, rebuildQueue, rebuilder, qry,
                   denseVer, invalidatedVer, rebuildReads,
                   sessions, messages, chat, strm>>
    /\ UNCHANGED rankVars

\* process_document, line 119: vectorstore.add_documents, one upsert.
TaskAdd(d, ok) ==
    /\ task[d].pc = "add"
    /\ LET p == documents[d].project_id IN
       IF ok
         THEN /\ dense' = [dense EXCEPT ![p] = @ \cup task[d].chunks]
              /\ denseVer' = [denseVer EXCEPT ![p] = @ + 1]
              /\ task' = [task EXCEPT ![d].pc = "invalidate", ![d].wver = denseVer[p] + 1]
              /\ UNCHANGED documents
         ELSE /\ documents' = update_document_status(documents, d, "FAILED")
              /\ task' = [task EXCEPT ![d].pc = "done"]
              /\ UNCHANGED <<dense, denseVer>>
    /\ Outcome(ok)
    /\ UNCHANGED <<bm25blob, cache, del, rebuildQueue, rebuilder, qry,
                   invalidatedVer, rebuildReads,
                   sessions, messages, chat, strm>>
    /\ UNCHANGED rankVars

\* process_document, line 120: _invalidate_query_cache.
TaskInvalidate(d, outcome) ==
    /\ task[d].pc = "invalidate"
    /\ LET p == documents[d].project_id IN
       /\ cache' = _invalidate_query_cache(cache, p, outcome)
       /\ invalidatedVer' = IF outcome = "done"
                              THEN [invalidatedVer EXCEPT ![p] = Max(@, task[d].wver)]
                              ELSE invalidatedVer
    /\ task' = [task EXCEPT ![d].pc = "rebuild_read"]
    /\ Outcome(outcome = "done")
    /\ UNCHANGED <<documents, dense, bm25blob, del, rebuildQueue, rebuilder, qry,
                   denseVer, rebuildReads,
                   sessions, messages, chat, strm>>
    /\ UNCHANGED rankVars

\* process_document_task, line 45, first half of the rebuild: full scan.
TaskRebuildRead(d, ok) ==
    /\ task[d].pc = "rebuild_read"
    /\ LET p == documents[d].project_id IN
       /\ task' = [task EXCEPT ![d].pc = "rebuild_write",
                               ![d].all_docs = _get_all_project_docs_from_chroma(p, ok)]
       /\ rebuildReads' = IF ok THEN [rebuildReads EXCEPT ![p] = @ \cup {dense[p]}]
                                ELSE rebuildReads
    /\ Outcome(ok)
    /\ UNCHANGED <<documents, dense, bm25blob, cache, del, rebuildQueue, rebuilder,
                   qry, denseVer, invalidatedVer,
                   sessions, messages, chat, strm>>
    /\ UNCHANGED rankVars

\* process_document_task, lines 45-51, second half of the rebuild and the
\* final status: COMPLETED unless the storage call raised.
TaskRebuildWrite(d, outcome) ==
    /\ task[d].pc = "rebuild_write"
    /\ LET p == documents[d].project_id IN
       bm25blob' = [bm25blob EXCEPT ![p] = PersistedBlob(@, task[d].all_docs, outcome)]
    /\ documents' = update_document_status(documents, d,
                        IF outcome = "raise" THEN "FAILED" ELSE "COMPLETED")
    /\ task' = [task EXCEPT ![d].pc = "done"]
    /\ Outcome(outcome = "ok")
    /\ UNCHANGED <<dense, cache, del, rebuildQueue, rebuilder, qry,
                   denseVer, invalidatedVer, rebuildReads,
                   sessions, messages, chat, strm>>
    /\ UNCHANGED rankVars

\* ----------------------------------------------------------------- removal
\* delete_document, lines 136-152, and delete_document_chunks, lines 125-132:
\* the row is found, the ids of the document's chunks are read.  With no ids,
\* or when collection.get raised (caught and logged), delete_document_chunks
\* returns and the endpoint goes on to the row.
DeleteStart(d, ok) ==
    /\ del[d].pc = "idle"
    /\ DocExists(d)
    /\ LET p == documents[d].project_id
           ids == {c \in dense[p] : c.document_id = d}
       IN del' = [del EXCEPT ![d] = [pc |-> IF ok /\ ids # {} THEN "chunks" ELSE "row",
                                     ids |-> IF ok THEN ids ELSE {},
                                     wver |-> 0,
                                     before |-> {e \in cache : e.project = p}]]
    /\ Outcome(ok)
    /\ UNCHANGED <<documents, dense, bm25blob, cache, task, rebuildQueue, rebuilder,
                   qry, denseVer, invalidatedVer, rebuildReads,
                   sessions, messages, chat, strm>>
    /\ UNCHANGED rankVars

\* delete_document_chunks, line 135: vectorstore.delete(ids); when it raises
\* the handler at line 138 logs and the endpoint goes on to the row.
DeleteChunks(d, ok) ==
    /\ del[d].pc = "chunks"
    /\ LET p == documents[d].project_id IN
       IF ok
         THEN /\ dense' = [dense EXCEPT ![p] = @ \ del[d].ids]
              /\ denseVer' = [denseVer EXCEPT ![p] = @ + 1]
              /\ del' = [del EXCEPT ![d].pc = "invalidate", ![d].wver = denseVer[p] + 1]
         ELSE /\ del' = [del EXCEPT ![d].pc = "row"]
              /\ UNCHANGED <<dense, denseVer>>
    /\ Outcome(ok)
    /\ UNCHANGED <<documents, bm25blob, cache, task, rebuildQueue, rebuilder, qry,
                   invalidatedVer, rebuildReads,
                   sessions, messages, chat, strm>>
    /\ UNCHANGED rankVars

\* delete_document_chunks, line 136: _invalidate_query_cache.
DeleteInvalidate(d, outcome) ==
    /\ del[d].pc = "invalidate"
    /\ LET p == documents[d].project_id IN
       /\ cache' = _invalidate_query_cache(cache, p, outcome)
       /\ invalidatedVer' = IF outcome = "done"
                              THEN [invalidatedVer EXCEPT ![p] = Max(@, del[d].wver)]
                              ELSE invalidatedVer
    /\ del' = [del EXCEPT ![d].pc = "row"]
    /\ Outcome(outcome = "done")
    /\ UNCHANGED <<documents, dense, bm25blob, task, rebuildQueue, rebuilder, qry,
                   denseVer, rebuildReads,
                   sessions, messages, chat, strm>>
    /\ UNCHANGED rankVars

\* delete_document, lines 154-175: the stored file, the row, the rebuild task
\* and the 204 response; when the storage call or the commit raises, the
\* handler rolls back and answers 500, and the row stays.
DeleteRecord(d, ok) ==
    /\ del[d].pc = "row"
    /\ IF ok
         THEN /\ documents' = [documents EXCEPT ![d].status = "DELETED"]
              /\ rebuildQueue' = [rebuildQueue EXCEPT ![documents[d].project_id] = @ + 1]
              /\ del' = [del EXCEPT ![d].pc = "done"]
         ELSE /\ del' = [del EXCEPT ![d] = IdleDelete]
              /\ UNCHANGED <<documents, rebuildQueue>>
    /\ Outcome(ok)
    /\ UNCHANGED <<dense, bm25blob, cache, task, rebuilder, qry,
                   denseVer, invalidatedVer, rebuildReads,
                   sessions, messages, chat, strm>>
    /\ UNCHANGED rankVars

\* ------------------------------------------------------------ rebuild task
\* rebuild_project_index_task, lines 61-75, and the first half of
\* rebuild_and_persist_bm25_index: a worker takes the message and scans the
\* collection.  Workers are taken in order, to leave out symmetric states.
RebuildStart(b, p, ok) ==
    /\ rebuilder[b].pc = "idle"
    /\ \A b2 \in Rebuilders : b2 < b => rebuilder[b2].pc # "idle"
    /\ rebuildQueue[p] > 0
    /\ rebuildQueue' = [rebuildQueue EXCEPT ![p] = @ - 1]
    /\ rebuilder' = [rebuilder EXCEPT ![b] = [pc |-> "write", project |-> p,
                         all_docs |-> _get_all_project_docs_from_chroma(p, ok)]]
    /\ rebuildReads' = IF ok THEN [rebuildReads EXCEPT ![p] = @ \cup {dense[p]}]
                             ELSE rebuildReads
    /\ Outcome(ok)
    /\ UNCHANGED <<documents, dense, bm25blob, cache, task, del, qry,
                   denseVer, invalidatedVer,
                   sessions, messages, chat, strm>>
    /\ UNCHANGED rankVars

\* rebuild_and_persist_bm25_index, lines 159-171, in the rebuild task: an
\* exception of the storage call is caught and logged by the task.
RebuildWrite(b, outcome) ==
    /\ rebuilder[b].pc = "write"
    /\ bm25blob' = [bm25blob EXCEPT ![rebuilder[b].project] =
                        PersistedBlob(@, rebuilder[b].all_docs, outcome)]
    /\ rebuilder' = [rebuilder EXCEPT ![b] = IdleRebuilder]
    /\ Outcome(outcome = "ok")
    /\ UNCHANGED <<documents, dense, cache, task, del, rebuildQueue, qry,
                   denseVer, invalidatedVer, rebuildReads,
                   sessions, messages, chat, strm>>
    /\ UNCHANGED rankVars

\* --------------------------------------------------------- one-shot query
LLMAnswers == {<<>>, <<"a">>}

\* The k best of a ranked collection: all of it when it holds at most k.
TopKSets(S) == {T \in SUBSET S : Cardinality(T) = Min(TopK, Cardinality(S))}

\* EnsembleRetriever.weighted_reciprocal_rank over [bm25, dense]: one document
\* per page_content, the first seen, and the BM25 list is seen first.
EnsembleResults(B, D) ==
    {T \in SUBSET (B \cup D) :
        /\ \A c \in B \cup D : \E k \in T : k.text = c.text
        /\ \A c1, c2 \in T : c1.text = c2.text => c1 = c2
        /\ \A c \in T : c \in B \/ ~ \E b \in B : b.text = c.text}

\* The possible results of _get_retriever().invoke: the ensemble when the
\* BM25 retriever was loaded, the dense top k alone otherwise.
Retrieved(bm25, D) ==
    IF bm25.present
      THEN UNION {EnsembleResults(B, K) : <<B, K>> \in TopKSets(bm25.docs) \X TopKSets(D)}
      ELSE TopKSets(D)

\* query, lines 263-268: one citation per page_content, the last in the
\* ranking of those that share it.
SourceSets(final_docs) ==
    {S \in SUBSET {[content |-> c.text, source |-> c.document_id] : c \in final_docs} :
        /\ \A c \in final_docs : \E x \in S : x.content = c.text
        /\ \A x1, x2 \in S : x1.content = x2.content => x1 = x2}

\* RAGService._load_bm25_retriever: the unpickled retriever, or None when the
\* object is not there ("absent") or the download or the unpickling failed
\* ("failed", caught and logged); it never raises.
_load_bm25_retriever(p, loadOk) ==
    IF ~ loadOk THEN [load |-> "failed", bm25 |-> NoBlob]
    ELSE IF ~ bm25blob[p].present THEN [load |-> "absent", bm25 |-> NoBlob]
    ELSE [load |-> "loaded", bm25 |-> bm25blob[p]]

\* json.dumps of a string: the text in quotes
JsonDumps(str) == <<"q">> \o str \o <<"q">>
\* json.loads of a JSON string, as the consumer of the stream reads it
JsonLoads(js) == SubSeq(js, 2, Len(js) - 1)

\* query, line 271-272: json.dumps of {"answer": answer, "sources": sources},
\* every string of it in quotes.
JsonDumpsResult(answer, sources) ==
    [answer |-> JsonDumps(answer),
     sources |-> {[content |-> JsonDumps(<<x.content>>),
                   source |-> JsonDumps(<<x.source>>)] : x \in sources}]

\* Mutant: the cached answer is returned as stored, not decoded.
JsonLoadsResult_raw(v) ==
    [answer |-> v.answer,
     sources |-> {[content |-> JsonLoads(x.content)[1],
                   source |-> JsonLoads(x.source)[1]] : x \in v.sources}]

\* query, line 248: json.loads of the cached value.
JsonLoadsResult(v) ==
    [answer |-> JsonLoads(v.answer),
     sources |-> {[content |-> JsonLoads(x.content)[1],
                   source |-> JsonLoads(x.source)[1]] : x \in v.sources}]

\* redis get: the entry under the key of (project, message), unless its
\* time to live has elapsed.
CacheGet(c, p, m) == {e \in c : e.project = p /\ e.message = m /\ e.live}

\* redis set under the key of (project, message) with ex=3600: replaces the
\* entry and starts its time to live.
CacheSet(c, e) == {x \in c : ~ (x.project = e.project /\ x.message = e.message)} \cup {e}

\* The time to live of an entry elapses: Redis no longer returns it.
CacheExpire(e) ==
    /\ e \in cache
    /\ e.live
    /\ cache' = (cache \ {e}) \cup {[e EXCEPT !.live = FALSE]}
    /\ UNCHANGED <<indexVars, qry, faults, sessions, messages, chat, strm>>
    /\ UNCHANGED rankVars

\* Mutant: the cache is not consulted, every call computes afresh.
query_call_noLookup(r, p, m, redis, getOk) ==
    /\ qry[r].pc = "idle"
    /\ redis \/ getOk
    /\ qry' = [qry EXCEPT ![r] =
          IF ~ getOk
            THEN [IdleQuery EXCEPT !.pc = "raised", !.project = p, !.message = m,
                                   !.redis = redis, !.err = "cache_get"]
            ELSE [IdleQuery EXCEPT !.pc = "rewrite", !.project = p, !.message = m,
                                   !.redis = redis]]
    /\ Outcome(redis /\ getOk)
    /\ UNCHANGED <<documents, dense, bm25blob, cache, task, del, rebuildQueue,
                   rebuilder, denseVer, invalidatedVer, rebuildReads>>
    /\ UNCHANGED rankVars

\* query, lines 246-248: the service is built (redis: the ping succeeded),
\* the key is looked up; a hit returns the cached pair, a failing get raises.
query_call(r, p, m, redis, getOk) ==
    /\ qry[r].pc = "idle"
    /\ redis \/ getOk
    /\ LET hits == CacheGet(cache, p, m) IN
       qry' = [qry EXCEPT ![r] =
          IF ~ getOk
            THEN [IdleQuery EXCEPT !.pc = "raised", !.project = p, !.message = m,
                                   !.redis = redis, !.err = "cache_get"]
          ELSE IF redis /\ hits # {}
            THEN LET e == CHOOSE h \in hits : TRUE IN
                 [IdleQuery EXCEPT !.pc = "returned", !.project = p, !.message = m,
                                   !.redis = redis, !.hit = TRUE, !.ver = e.ver,
                                   !.answer = JsonLoadsResult(e.value).answer,
                                   !.sources = JsonLoadsResult(e.value).sources]
          ELSE [IdleQuery EXCEPT !.pc = "rewrite", !.project = p, !.message = m, !.redis = redis]]
    /\ Outcome(redis /\ getOk)
    /\ UNCHANGED <<documents, dense, bm25blob, cache, task, del, rebuildQueue,
                   rebuilder, denseVer, invalidatedVer, rebuildReads>>
    /\ UNCHANGED rankVars

\* RAGService.query called on its own.
QueryCall(r, p, m, redis, getOk) ==
    /\ query_call(r, p, m, redis, getOk)
    /\ UNCHANGED chatVars

\* Mutant: a snapshot that cannot be downloaded or unpickled ends the query.
QueryRewrite_loadRaises(r, loadOk, hydeOk) ==
    /\ qry[r].pc = "rewrite"
    /\ qry' = [qry EXCEPT ![r].pc = IF hydeOk /\ loadOk THEN "retrieve" ELSE "raised",
                          ![r].err = IF ~ loadOk THEN "load"
                                     ELSE IF hydeOk THEN "none" ELSE "rewrite",
                          ![r].load = IF ~ (hydeOk /\ loadOk) THEN "none"
                                      ELSE _load_bm25_retriever(qry[r].project, loadOk).load,
                          ![r].bm25 = IF ~ (hydeOk /\ loadOk) THEN NoBlob
                                      ELSE _load_bm25_retriever(qry[r].project, loadOk).bm25]
    /\ Outcome(loadOk /\ hydeOk)
    /\ UNCHANGED <<documents, dense, bm25blob, cache, task, del, rebuildQueue,
                   rebuilder, denseVer, invalidatedVer, rebuildReads,
                   sessions, messages, chat, strm>>
    /\ UNCHANGED rankVars

\* query, lines 250-254: _load_bm25_retriever (absent when the download or
\* the unpickling failed) and the hypothetical-document call of the model.
QueryRewrite(r, loadOk, hydeOk) ==
    /\ qry[r].pc = "rewrite"
    /\ qry' = [qry EXCEPT ![r].pc = IF hydeOk THEN "retrieve" ELSE "raised",
                          ![r].err = IF hydeOk THEN "none" ELSE "rewrite",
                          ![r].load = IF ~ hydeOk THEN "none"
                                      ELSE _load_bm25_retriever(qry[r].project, loadOk).load,
                          ![r].bm25 = IF ~ hydeOk THEN NoBlob
                                      ELSE _load_bm25_retriever(qry[r].project, loadOk).bm25]
    /\ Outcome(loadOk /\ hydeOk)
    /\ UNCHANGED <<documents, dense, bm25blob, cache, task, del, rebuildQueue,
                   rebuilder, denseVer, invalidatedVer, rebuildReads,
                   sessions, messages, chat, strm>>
    /\ UNCHANGED rankVars

\* Mutant: an empty retrieval goes on to the generation call.
QueryRetrieve_generatesOnEmpty(r, ok) ==
    /\ qry[r].pc = "retrieve"
    /\ \E F \in Retrieved(qry[r].bm25, dense[qry[r].project]) :
         qry' = [qry EXCEPT ![r] =
            IF ~ ok THEN [@ EXCEPT !.pc = "raised", !.bm25 = NoBlob, !.load = "none",
                                   !.err = "retrieve"]
            ELSE [@ EXCEPT !.pc = "generate", !.final_docs = F,
                           !.ver = denseVer[qry[r].project]]]
    /\ Outcome(ok)
    /\ UNCHANGED <<documents, dense, bm25blob, cache, task, del, rebuildQueue,
                   rebuilder, denseVer, invalidatedVer, rebuildReads,
                   sessions, messages, chat, strm>>
    /\ UNCHANGED rankVars

\* Variant of QueryRetrieve in which the fixed answer of an empty retrieval
\* is stored in the cache like a generated one.
QueryRetrieve_cachesFixed(r, ok) ==
    /\ qry[r].pc = "retrieve"
    /\ \E F \in Retrieved(qry[r].bm25, dense[qry[r].project]) :
         /\ qry' = [qry EXCEPT ![r] =
               IF ~ ok THEN [@ EXCEPT !.pc = "raised", !.bm25 = NoBlob, !.load = "none",
                                      !.err = "retrieve"]
               ELSE IF F = {} THEN [@ EXCEPT !.pc = "returned", !.answer = NoInfoAnswer,
                                             !.bm25 = NoBlob, !.load = "none",
                                             !.ver = denseVer[qry[r].project]]
               ELSE [@ EXCEPT !.pc = "generate", !.final_docs = F,
                              !.ver = denseVer[qry[r].project]]]
         /\ cache' = IF ok /\ F = {} /\ qry[r].redis
                       THEN CacheSet(cache, [project |-> qry[r].project,
                                message |-> qry[r].message,
                                value |-> JsonDumpsResult(NoInfoAnswer, {}),
                                ver |-> denseVer[qry[r].project], by |-> r,
                                live |-> TRUE])
                       ELSE cache
    /\ Outcome(ok)
    /\ UNCHANGED <<documents, dense, bm25blob, task, del, rebuildQueue,
                   rebuilder, denseVer, invalidatedVer, rebuildReads,
                   sessions, messages, chat, strm>>
    /\ UNCHANGED rankVars

\* query, lines 255-258: retrieval; nothing retrieved returns the fixed answer.
QueryRetrieve(r, ok) ==
    /\ qry[r].pc = "retrieve"
    /\ \E F \in Retrieved(qry[r].bm25, dense[qry[r].project]) :
         qry' = [qry EXCEPT ![r] =
            IF ~ ok THEN [@ EXCEPT !.pc = "raised", !.bm25 = NoBlob, !.load = "none",
                                   !.err = "retrieve"]
            ELSE IF F = {} THEN [@ EXCEPT !.pc = "returned", !.answer = NoInfoAnswer,
                                          !.bm25 = NoBlob, !.load = "none",
                                          !.ver = denseVer[qry[r].project]]
            ELSE [@ EXCEPT !.pc = "generate", !.final_docs = F,
                           !.ver = denseVer[qry[r].project]]]
    /\ Outcome(ok)
    /\ UNCHANGED <<documents, dense, bm25blob, cache, task, del, rebuildQueue,
                   rebuilder, denseVer, invalidatedVer, rebuildReads,
                   sessions, messages, chat, strm>>
    /\ UNCHANGED rankVars

\* Variant of QueryGenerate in which the entry is written before the
\* generation, so that a failed generation leaves it behind.
QueryGenerate_cacheFirst(r, genOk, ans, setOk) ==
    /\ qry[r].pc = "generate"
    /\ ans \in LLMAnswers
    /\ qry[r].redis \/ setOk
    /\ \E srcs \in SourceSets(qry[r].final_docs) :
       /\ cache' = IF qry[r].redis /\ setOk
                     THEN CacheSet(cache, [project |-> qry[r].project,
                              message |-> qry[r].message,
                              value |-> JsonDumpsResult(ans, srcs),
                              ver |-> qry[r].ver, by |-> r, live |-> TRUE])
                     ELSE cache
       /\ IF ~ genOk \/ ~ setOk
            THEN qry' = [qry EXCEPT ![r].pc = "raised", ![r].bm25 = NoBlob,
                                    ![r].load = "none", ![r].final_docs = {},
                                    ![r].err = IF genOk THEN "cache_set" ELSE "generate"]
            ELSE qry' = [qry EXCEPT ![r].pc = "returned", ![r].answer = ans,
                                    ![r].sources = srcs, ![r].bm25 = NoBlob,
                                    ![r].load = "none", ![r].final_docs = {}]
    /\ Outcome(genOk /\ setOk)
    /\ UNCHANGED <<documents, dense, bm25blob, task, del, rebuildQueue,
                   rebuilder, denseVer, invalidatedVer, rebuildReads,
                   sessions, messages, chat, strm>>
    /\ UNCHANGED rankVars

\* query, lines 260-274: generation, citations, the cache entry, the return.
\* setOk matters only when redis_client is set.
QueryGenerate(r, genOk, ans, setOk) ==
    /\ qry[r].pc = "generate"
    /\ ans \in LLMAnswers
    /\ qry[r].redis \/ setOk
    /\ \E srcs \in SourceSets(qry[r].final_docs) :
       IF ~ genOk \/ ~ setOk
         THEN /\ qry' = [qry EXCEPT ![r].pc = "raised", ![r].bm25 = NoBlob,
                                    ![r].load = "none", ![r].final_docs = {},
                                    ![r].err = IF genOk THEN "cache_set" ELSE "generate"]
              /\ UNCHANGED cache
         ELSE /\ qry' = [qry EXCEPT ![r].pc = "returned", ![r].answer = ans,
                                    ![r].sources = srcs, ![r].bm25 = NoBlob,
                                    ![r].load = "none", ![r].final_docs = {}]
              /\ cache' = IF qry[r].redis
                            THEN CacheSet(cache, [project |-> qry[r].project,
                                     message |-> qry[r].message,
                                     value |-> JsonDumpsResult(ans, srcs),
                                     ver |-> qry[r].ver, by |-> r, live |-> TRUE])
                            ELSE cache
    /\ Outcome(genOk /\ setOk)
    /\ UNCHANGED <<documents, dense, bm25blob, task, del, rebuildQueue,
                   rebuilder, denseVer, invalidatedVer, rebuildReads,
                   sessions, messages, chat, strm>>
    /\ UNCHANGED rankVars

\* ------------------------------------------------------- conversation log
NoChat == "none"
ChatIds == {NoChat, "s0", "s9", "sx"}
InitSessions == {[id |-> "s0", project_id |-> ActiveProject],
                 [id |-> "s9", project_id |-> "p2"]}

\* uuid4 of the ChatSession a request creates
NewSessionId(r) == "s_" \o r

SessionExists(rows, id) == \E x \in rows : x.id = id

\* crud.create_chat_session
create_chat_session(rows, id, p) == rows \cup {[id |-> id, project_id |-> p]}

\* crud.add_chat_message: one more row (the foreign key to chat_sessions holds)
add_chat_message(rows, session_id, role, content, srcs, r) ==
    Append(rows, [session_id |-> session_id, role |-> role, content |-> content,
                  sources |-> srcs, request |-> r])

IdleChat == [pc |-> "idle", chat_id |-> NoChat]

\* handle_chat_query, lines 39-44: the project is found, RAGService.query is
\* called.
HandleChatQuery(r, m, chat_id, redis, getOk) ==
    /\ chat[r].pc = "idle"
    /\ strm[r].pc = "idle"
    /\ query_call(r, ActiveProject, m, redis, getOk)
    /\ chat' = [chat EXCEPT ![r] = [pc |-> "query", chat_id |-> chat_id]]
    /\ UNCHANGED <<sessions, messages, strm>>

\* handle_chat_query, lines 46-58, after query returned: a session is created
\* when the request names none, the user and the assistant message are added,
\* the response is sent.  add_chat_message raises on a chat_id without a
\* session row (foreign key), which ends the request with a server error.
ChatRecord(r) ==
    /\ chat[r].pc = "query"
    /\ qry[r].pc = "returned"
    /\ LET new == chat[r].chat_id = NoChat
           id == IF new THEN NewSessionId(r) ELSE chat[r].chat_id
           rows == IF new THEN create_chat_session(sessions, id, qry[r].project)
                          ELSE sessions
       IN IF SessionExists(rows, id)
            THEN /\ sessions' = rows
                 /\ messages' = add_chat_message(
                        add_chat_message(messages, id, "user", qry[r].message, {}, r),
                        id, "assistant", qry[r].answer, qry[r].sources, r)
                 /\ chat' = [chat EXCEPT ![r].pc = "done", ![r].chat_id = id]
            ELSE /\ chat' = [chat EXCEPT ![r].pc = "failed"]
                 /\ UNCHANGED <<sessions, messages>>
    /\ UNCHANGED <<indexVars, cache, qry, faults, strm>>
    /\ UNCHANGED rankVars

\* handle_chat_query, line 44, when query raised: nothing is recorded.
ChatFail(r) ==
    /\ chat[r].pc = "query"
    /\ qry[r].pc = "raised"
    /\ chat' = [chat EXCEPT ![r].pc = "failed"]
    /\ UNCHANGED <<indexVars, cache, qry, faults, sessions, messages, strm>>
    /\ UNCHANGED rankVars

\* --------------------------------------------------------- streaming query
\* fragments the generation model streams: empty content chunks occur
Tokens == {<<>>, <<"a">>, <<"b">>}
\* token events of one stream
MaxTokens == 2

Event(name, data) == [event |-> name, data |-> data]

IdleStream == [pc |-> "idle", chat_id |-> NoChat, message |-> "none",
               events |-> <<>>, full_response |-> <<>>, sources |-> {},
               generator |-> "none", stopped |-> "no", err |-> "none"]

\* handle_streaming_chat_query, lines 70-80 and 121: the project is found, a
\* session is created when the request names none, the service is built and
\* the generator is handed to the response; it has not run yet.
HandleStreamingChatQuery(r, m, chat_id) ==
    /\ strm[r].pc = "idle"
    /\ chat[r].pc = "idle"
    /\ LET new == chat_id = NoChat
           id == IF new THEN NewSessionId(r) ELSE chat_id
       IN /\ sessions' = IF new THEN create_chat_session(sessions, id, ActiveProject)
                                ELSE sessions
          /\ strm' = [strm EXCEPT ![r] = [IdleStream EXCEPT !.pc = "created",
                                              !.chat_id = id, !.message = m]]
    /\ UNCHANGED <<indexVars, cache, qry, faults, messages, chat>>
    /\ UNCHANGED rankVars

\* event_generator, lines 84-87: the user message, then the start event.
\* add_chat_message raises on a chat_id without a session row and the
\* generator ends without an event.
GenStart(r) ==
    /\ strm[r].pc = "created"
    /\ IF SessionExists(sessions, strm[r].chat_id)
         THEN /\ messages' = add_chat_message(messages, strm[r].chat_id, "user",
                                              strm[r].message, {}, r)
              /\ strm' = [strm EXCEPT ![r].pc = "y_start",
                              ![r].events = <<Event("start", strm[r].chat_id)>>]
         ELSE /\ strm' = [strm EXCEPT ![r].pc = "crashed"]
              /\ UNCHANGED messages
    /\ UNCHANGED <<indexVars, cache, qry, faults, sessions, chat>>
    /\ UNCHANGED rankVars

\* The finally clause, lines 109-116: the assistant message is added when
\* full_response is not empty.
SavedOnExit(rows, r) ==
    IF strm[r].full_response # <<>>
      THEN add_chat_message(rows, strm[r].chat_id, "assistant",
                            strm[r].full_response, strm[r].sources, r)
      ELSE rows

\* Variant of GenStreamQuery in which a failure of the rewrite or of the
\* retrieval is logged but no error event is sent.
GenStreamQuery_silentFailure(r, loadOk, hydeOk, retrOk) ==
    /\ strm[r].pc = "y_start"
    /\ LET bm25 == _load_bm25_retriever(ActiveProject, loadOk).bm25 IN
       \E F \in Retrieved(bm25, dense[ActiveProject]) :
       \E srcs \in SourceSets(F) :
         strm' = [strm EXCEPT ![r] =
            IF ~ (hydeOk /\ retrOk)
              THEN [@ EXCEPT !.pc = "y_error",
                             !.err = IF hydeOk THEN "retrieve" ELSE "rewrite"]
              ELSE [@ EXCEPT !.pc = "y_sources", !.sources = srcs,
                             !.generator = IF F = {} THEN "fixed" ELSE "llm",
                             !.events = Append(@, Event("sources", srcs))]]
    /\ Outcome(loadOk /\ hydeOk /\ retrOk)
    /\ UNCHANGED <<indexVars, cache, qry, sessions, messages, chat>>
    /\ UNCHANGED rankVars

\* Mutant: the sources event is not sent.
GenStreamQuery_noSources(r, loadOk, hydeOk, retrOk) ==
    /\ strm[r].pc = "y_start"
    /\ LET bm25 == _load_bm25_retriever(ActiveProject, loadOk).bm25 IN
       \E F \in Retrieved(bm25, dense[ActiveProject]) :
       \E srcs \in SourceSets(F) :
         strm' = [strm EXCEPT ![r] =
            IF ~ (hydeOk /\ retrOk)
              THEN [@ EXCEPT !.pc = "y_error",
                             !.err = IF hydeOk THEN "retrieve" ELSE "rewrite",
                             !.events = Append(@, Event("error", ErrorMessage))]
              ELSE [@ EXCEPT !.pc = "y_sources", !.sources = srcs,
                             !.generator = IF F = {} THEN "fixed" ELSE "llm"]]
    /\ Outcome(loadOk /\ hydeOk /\ retrOk)
    /\ UNCHANGED <<indexVars, cache, qry, sessions, messages, chat>>
    /\ UNCHANGED rankVars

\* Mutant: stream_query looks the query up in the answer cache first and
\* replays the cached pair without retrieving.
GenStreamQuery_cached(r, loadOk, hydeOk, retrOk) ==
    /\ strm[r].pc = "y_start"
    /\ LET bm25 == _load_bm25_retriever(ActiveProject, loadOk).bm25
           hits == CacheGet(cache, ActiveProject, strm[r].message) IN
       \E F \in Retrieved(bm25, dense[ActiveProject]) :
       \E srcs \in SourceSets(F) :
         strm' = [strm EXCEPT ![r] =
            IF hits # {}
              THEN [@ EXCEPT !.pc = "y_sources", !.generator = "cached",
                             !.sources = JsonLoadsResult((CHOOSE e \in hits : TRUE).value).sources,
                             !.events = Append(@, Event("sources",
                                 JsonLoadsResult((CHOOSE e \in hits : TRUE).value).sources))]
            ELSE IF ~ (hydeOk /\ retrOk)
              THEN [@ EXCEPT !.pc = "y_error",
                             !.err = IF hydeOk THEN "retrieve" ELSE "rewrite",
                             !.events = Append(@, Event("error", ErrorMessage))]
              ELSE [@ EXCEPT !.pc = "y_sources", !.sources = srcs,
                             !.generator = IF F = {} THEN "fixed" ELSE "llm",
                             !.events = Append(@, Event("sources", srcs))]]
    /\ Outcome(loadOk /\ hydeOk /\ retrOk)
    /\ UNCHANGED <<indexVars, cache, qry, sessions, messages, chat>>
    /\ UNCHANGED rankVars

\* event_generator, lines 89-97 and 105-108, resumed after start:
\* stream_query loads the BM25 retriever, asks for the hypothetical document
\* and retrieves.  It returns the sources and a lazy generator (the fixed
\* sentence when nothing was retrieved), and the sources event follows; when
\* the rewrite or the retrieval raises, the error event follows instead.
GenStreamQuery(r, loadOk, hydeOk, retrOk) ==
    /\ strm[r].pc = "y_start"
    /\ LET bm25 == _load_bm25_retriever(ActiveProject, loadOk).bm25 IN
       \E F \in Retrieved(bm25, dense[ActiveProject]) :
       \E srcs \in SourceSets(F) :
         strm' = [strm EXCEPT ![r] =
            IF ~ (hydeOk /\ retrOk)
              THEN [@ EXCEPT !.pc = "y_error",
                             !.err = IF hydeOk THEN "retrieve" ELSE "rewrite",
                             !.events = Append(@, Event("error", ErrorMessage))]
              ELSE [@ EXCEPT !.pc = "y_sources", !.sources = srcs,
                             !.generator = IF F = {} THEN "fixed" ELSE "llm",
                             !.events = Append(@, Event("sources", srcs))]]
    /\ Outcome(loadOk /\ hydeOk /\ retrOk)
    /\ UNCHANGED <<indexVars, cache, qry, sessions, messages, chat>>
    /\ UNCHANGED rankVars

\* The fragments sent so far, as the consumer decodes them from the events.
SentTokens(ev) ==
    LET tk == SelectSeq(ev, LAMBDA e : e.event = "token")
    IN [i \in 1..Len(tk) |-> JsonLoads(tk[i].data)]

\* What the response generator does when asked for its next item: the fixed
\* generator yields its sentence once and stops, the model yields fragments,
\* stops or raises.
GeneratorCan(r, outcome, t) ==
    IF strm[r].generator = "fixed"
      THEN IF SentTokens(strm[r].events) = <<>> THEN outcome = "token" /\ t = NoInfoAnswer
                                      ELSE outcome = "stop" /\ t = <<>>
      ELSE \/ outcome = "token" /\ t \in Tokens
                                /\ Len(SentTokens(strm[r].events)) < MaxTokens
           \/ outcome \in {"stop", "raise"} /\ t = <<>>

\* Mutant: full_response is assigned the fragment instead of extended by it.
GenToken_overwrite(r, outcome, t) ==
    /\ strm[r].pc \in {"y_sources", "y_token"}
    /\ GeneratorCan(r, outcome, t)
    /\ IF outcome = "token"
         THEN /\ strm' = [strm EXCEPT ![r].pc = "y_token",
                              ![r].full_response = t,
                              ![r].events = Append(@, Event("token", JsonDumps(t)))]
              /\ UNCHANGED messages
       ELSE IF outcome = "stop"
         THEN /\ messages' = SavedOnExit(messages, r)
              /\ strm' = [strm EXCEPT ![r].pc = "y_end",
                              ![r].events = Append(@, Event("end", "Stream ended"))]
         ELSE /\ strm' = [strm EXCEPT ![r].pc = "y_error", ![r].err = "generate",
                              ![r].events = Append(@, Event("error", ErrorMessage))]
              /\ UNCHANGED messages
    /\ Outcome(outcome # "raise")
    /\ UNCHANGED <<indexVars, cache, qry, sessions, chat>>
    /\ UNCHANGED rankVars

\* event_generator, lines 100-119, resumed after the sources event or after a
\* token event: the next fragment is appended to full_response and sent; at
\* the end of the generator the finally clause saves and the end event
\* follows; when the generator raises, the error event follows.
GenToken(r, outcome, t) ==
    /\ strm[r].pc \in {"y_sources", "y_token"}
    /\ GeneratorCan(r, outcome, t)
    /\ IF outcome = "token"
         THEN /\ strm' = [strm EXCEPT ![r].pc = "y_token",
                              ![r].full_response = @ \o t,
                              ![r].events = Append(@, Event("token", JsonDumps(t)))]
              /\ UNCHANGED messages
       ELSE IF outcome = "stop"
         THEN /\ messages' = SavedOnExit(messages, r)
              /\ strm' = [strm EXCEPT ![r].pc = "y_end",
                              ![r].events = Append(@, Event("end", "Stream ended"))]
         ELSE /\ strm' = [strm EXCEPT ![r].pc = "y_error", ![r].err = "generate",
                              ![r].events = Append(@, Event("error", ErrorMessage))]
              /\ UNCHANGED messages
    /\ Outcome(outcome # "raise")
    /\ UNCHANGED <<indexVars, cache, qry, sessions, chat>>
    /\ UNCHANGED rankVars

\* Mutant: after an error the generator returns without the end event.
GenAfterError_noEnd(r) ==
    /\ strm[r].pc = "y_error"
    /\ messages' = SavedOnExit(messages, r)
    /\ strm' = [strm EXCEPT ![r].pc = "done"]
    /\ UNCHANGED <<indexVars, cache, qry, faults, sessions, chat>>
    /\ UNCHANGED rankVars

\* Mutant: the handler for Exception saves too, before the finally clause.
GenAfterError_savesTwice(r) ==
    /\ strm[r].pc = "y_error"
    /\ messages' = SavedOnExit(SavedOnExit(messages, r), r)
    /\ strm' = [strm EXCEPT ![r].pc = "y_end",
                    ![r].events = Append(@, Event("end", "Stream ended"))]
    /\ UNCHANGED <<indexVars, cache, qry, faults, sessions, chat>>
    /\ UNCHANGED rankVars

\* event_generator, lines 108-119, resumed after the error event: the
\* finally clause saves and the end event follows.
GenAfterError(r) ==
    /\ strm[r].pc = "y_error"
    /\ messages' = SavedOnExit(messages, r)
    /\ strm' = [strm EXCEPT ![r].pc = "y_end",
                    ![r].events = Append(@, Event("end", "Stream ended"))]
    /\ UNCHANGED <<indexVars, cache, qry, faults, sessions, chat>>
    /\ UNCHANGED rankVars

\* event_generator resumed after the end event: the generator is exhausted.
GenFinish(r) ==
    /\ strm[r].pc = "y_end"
    /\ strm' = [strm EXCEPT ![r].pc = "done"]
    /\ UNCHANGED <<indexVars, cache, qry, faults, sessions, messages, chat>>
    /\ UNCHANGED rankVars

\* Mutant: the save is not in a finally clause, closing skips it.
GenClose_noSave(r) ==
    /\ strm[r].pc \in {"y_start", "y_sources", "y_token", "y_error", "y_end"}
    /\ strm' = [strm EXCEPT ![r].pc = "closed", ![r].stopped = "closed"]
    /\ UNCHANGED <<indexVars, cache, qry, faults, sessions, messages, chat>>
    /\ UNCHANGED rankVars

\* The consumer closes the generator while it is suspended at a yield:
\* GeneratorExit is raised there.  At the start event (line 87, before the
\* try) and at the end event (line 119, in the finally clause) it leaves the
\* generator at once; inside the try or the handler (lines 97, 103, 108) the
\* finally clause runs first, and its yield is refused by the closing
\* generator, so no event is added.
GenClose(r) ==
    /\ strm[r].pc \in {"y_start", "y_sources", "y_token", "y_error", "y_end"}
    /\ messages' = IF strm[r].pc \in {"y_sources", "y_token", "y_error"}
                     THEN SavedOnExit(messages, r) ELSE messages
    /\ strm' = [strm EXCEPT ![r].pc = "closed", ![r].stopped = "closed"]
    /\ UNCHANGED <<indexVars, cache, qry, faults, sessions, chat>>
    /\ UNCHANGED rankVars

\* The consumer is cancelled while the generator is awaiting stream_query
\* (line 93) or the next fragment (line 100): CancelledError is raised there,
\* the handler for Exception does not take it, the finally clause saves and
\* yields the end event.
GenCancel(r) ==
    /\ strm[r].pc \in {"y_start", "y_sources", "y_token"}
    /\ messages' = SavedOnExit(messages, r)
    /\ strm' = [strm EXCEPT ![r].pc = "y_end", ![r].stopped = "cancelled",
                    ![r].events = Append(@, Event("end", "Stream ended"))]
    /\ UNCHANGED <<indexVars, cache, qry, faults, sessions, chat>>
    /\ UNCHANGED rankVars

\* ------------------------------------------------------------ specification
\* ------------------------------------------------------- the source list
NotComputed == [made |-> FALSE, sources |-> <<>>]

\* No source list is being made.
NoRanking == ranking = <<>> /\ citations = NotComputed

\* Variant of DictAssign in which a key already present moves to the end.
DictAssign_moveToEnd(dict, key, value) ==
    Append(SelectSeq(dict, LAMBDA x : x.content # key), value)

\* unique_sources[key] = value on a Python dict, kept in insertion order: a
\* key already present keeps its place and takes the new value.
DictAssign(dict, key, value) ==
    IF \E i \in 1..Len(dict) : dict[i].content = key
      THEN [i \in 1..Len(dict) |-> IF dict[i].content = key THEN value ELSE dict[i]]
      ELSE Append(dict, value)

\* query, lines 263-266, and stream_query, lines 233-236: the loop over
\* final_docs.
RECURSIVE unique_sources_loop(_, _)
unique_sources_loop(docs, dict) ==
    IF docs = <<>> THEN dict
    ELSE LET doc == Head(docs) IN
         unique_sources_loop(Tail(docs),
             DictAssign(dict, doc.text,
                        [content |-> doc.text, source |-> doc.document_id]))

\* query, line 268, and stream_query, line 238: list(unique_sources.values())
unique_sources(final_docs) == unique_sources_loop(final_docs, <<>>)

\* The chunks a ranked list is made of, and the ranked lists.
RankedChunks == {[document_id |-> d, text |-> t] : d \in Docs, t \in {"t1", "t2"}}
Rankings == UNION {[1..n -> RankedChunks] : n \in 0..MaxRank}

\* The source list is made from the ranked list.
MakeSources ==
    /\ ~ citations.made
    /\ citations' = [made |-> TRUE, sources |-> unique_sources(ranking)]
    /\ UNCHANGED <<indexVars, cache, qry, faults, chatVars, ranking>>

\* The collection of the active project is empty, or holds one document that
\* was ingested earlier: its row COMPLETED, its chunks in the collection, the
\* snapshot built from them, the cache invalidated.
Seeded(seed) ==
    /\ documents = [d \in Docs |->
          IF seed /\ d = "d0" THEN [status |-> "COMPLETED", project_id |-> ActiveProject]
                              ELSE [status |-> "NONE", project_id |-> NoProject]]
    /\ dense = [p \in Projects |-> IF seed /\ p = ActiveProject THEN LoadedChunks("d0") ELSE {}]
    /\ bm25blob = [p \in Projects |->
          IF seed /\ p = ActiveProject THEN [present |-> TRUE, docs |-> LoadedChunks("d0")]
                                       ELSE NoBlob]
    /\ task = [d \in Docs |-> IF seed /\ d = "d0"
                                THEN [IdleTask EXCEPT !.pc = "done", !.ensured = TRUE]
                                ELSE IdleTask]
    /\ denseVer = [p \in Projects |-> IF seed /\ p = ActiveProject THEN 1 ELSE 0]
    /\ invalidatedVer = [p \in Projects |-> IF seed /\ p = ActiveProject THEN 1 ELSE 0]
    /\ rebuildReads = [p \in Projects |->
          IF seed /\ p = ActiveProject THEN {LoadedChunks("d0")} ELSE {}]

\* The collection of the active project after its one document was removed
\* and before the rebuild that the removal enqueued has run: the row and the
\* chunks are gone, the cache was invalidated, the snapshot is still the one
\* built at ingestion.
Emptied ==
    /\ documents = [d \in Docs |->
          IF d = "d0" THEN [status |-> "DELETED", project_id |-> ActiveProject]
                      ELSE [status |-> "NONE", project_id |-> NoProject]]
    /\ dense = [p \in Projects |-> {}]
    /\ bm25blob = [p \in Projects |->
          IF p = ActiveProject THEN [present |-> TRUE, docs |-> LoadedChunks("d0")]
                               ELSE NoBlob]
    /\ task = [d \in Docs |-> IF d = "d0" THEN [IdleTask EXCEPT !.pc = "done", !.ensured = TRUE]
                                         ELSE IdleTask]
    /\ del = [d \in Docs |-> IF d = "d0" THEN [IdleDelete EXCEPT !.pc = "done"] ELSE IdleDelete]
    /\ rebuildQueue = [p \in Projects |-> IF p = ActiveProject THEN 1 ELSE 0]
    /\ denseVer = [p \in Projects |-> IF p = ActiveProject THEN 2 ELSE 0]
    /\ invalidatedVer = [p \in Projects |-> IF p = ActiveProject THEN 2 ELSE 0]
    /\ rebuildReads = [p \in Projects |->
          IF p = ActiveProject THEN {LoadedChunks("d0")} ELSE {}]

\* No request is in progress, the cache and the conversation log are as new.
NoRequests ==
    /\ cache = {}
    /\ rebuilder = [b \in Rebuilders |-> IdleRebuilder]
    /\ qry = [r \in Requests |-> IdleQuery]
    /\ faults = 0
    /\ sessions = InitSessions
    /\ messages = <<>>
    /\ chat = [r \in Requests |-> IdleChat]
    /\ strm = [r \in Requests |-> IdleStream]
    /\ NoRanking

Init ==
    /\ \E seed \in BOOLEAN : Seeded(seed)
    /\ cache = {}
    /\ del = [d \in Docs |-> IdleDelete]
    /\ rebuildQueue = [p \in Projects |-> 0]
    /\ rebuilder = [b \in Rebuilders |-> IdleRebuilder]
    /\ qry = [r \in Requests |-> IdleQuery]
    /\ faults = 0
    /\ sessions = InitSessions
    /\ messages = <<>>
    /\ chat = [r \in Requests |-> IdleChat]
    /\ strm = [r \in Requests |-> IdleStream]
    /\ NoRanking

Next ==
    \/ \E d \in NewDocs : UploadDocument(d, ActiveProject)
    \/ \E d \in Docs : TaskStart(d)
    \/ \E d \in Docs, o \in {"raise", "empty", "chunks"} : TaskLoad(d, o)
    \/ \E d \in Docs, ok \in BOOLEAN : TaskAdd(d, ok)
    \/ \E d \in Docs, o \in {"done", "skipped"} : TaskInvalidate(d, o)
    \/ \E d \in Docs, ok \in BOOLEAN : TaskRebuildRead(d, ok)
    \/ \E d \in Docs, o \in {"ok", "false", "raise"} : TaskRebuildWrite(d, o)
    \/ \E d \in NewDocs, ok \in BOOLEAN : DeleteStart(d, ok)
    \/ \E d \in NewDocs, ok \in BOOLEAN : DeleteChunks(d, ok)
    \/ \E d \in NewDocs, o \in {"done", "skipped"} : DeleteInvalidate(d, o)
    \/ \E d \in NewDocs, ok \in BOOLEAN : DeleteRecord(d, ok)
    \/ \E b \in Rebuilders, p \in Projects, ok \in BOOLEAN : RebuildStart(b, p, ok)
    \/ \E b \in Rebuilders, o \in {"ok", "false", "raise"} : RebuildWrite(b, o)
    \/ \E r \in Requests, m \in Messages, rd, ok \in BOOLEAN :
          QueryCall(r, ActiveProject, m, rd, ok)
    \/ \E r \in Requests, l, h \in BOOLEAN : QueryRewrite(r, l, h)
    \/ \E r \in Requests, ok \in BOOLEAN : QueryRetrieve(r, ok)
    \/ \E r \in Requests, g, st \in BOOLEAN, ans \in LLMAnswers :
          QueryGenerate(r, g, ans, st)

Spec == Init /\ [][Next]_vars

\* Requests through the chat endpoints, over a corpus that does not change.
NextChat ==
    \/ \E r \in Requests, m \in Messages, c \in ChatIds, rd, ok \in BOOLEAN :
          HandleChatQuery(r, m, c, rd, ok)
    \/ \E r \in Requests, l, h \in BOOLEAN : QueryRewrite(r, l, h)
    \/ \E r \in Requests, ok \in BOOLEAN : QueryRetrieve(r, ok)
    \/ \E r \in Requests, g, st \in BOOLEAN, ans \in LLMAnswers :
          QueryGenerate(r, g, ans, st)
    \/ \E r \in Requests : ChatRecord(r)
    \/ \E r \in Requests : ChatFail(r)
    \/ \E r \in StreamRequests, m \in Messages, c \in ChatIds : HandleStreamingChatQuery(r, m, c)
    \/ \E r \in StreamRequests : GenStart(r)
    \/ \E r \in StreamRequests, l, h, t \in BOOLEAN : GenStreamQuery(r, l, h, t)
    \/ \E r \in StreamRequests, o \in {"token", "stop", "raise"}, t \in Tokens \cup {NoInfoAnswer} :
          GenToken(r, o, t)
    \/ \E r \in StreamRequests : GenAfterError(r)
    \/ \E r \in StreamRequests : GenFinish(r)
    \/ \E r \in StreamRequests : GenClose(r)
    \/ \E r \in StreamRequests : GenCancel(r)

\* The chat endpoints are also called in the window between a removal and
\* its rebuild.
InitChat == Init \/ (Emptied /\ NoRequests)

SpecChat == InitChat /\ [][NextChat]_vars

\* One-shot queries over a corpus that does not change, with the time to
\* live of the cache entries elapsing.
NextCache ==
    \/ \E r \in Requests, m \in Messages, rd, ok \in BOOLEAN :
          QueryCall(r, ActiveProject, m, rd, ok)
    \/ \E r \in Requests, l, h \in BOOLEAN : QueryRewrite(r, l, h)
    \/ \E r \in Requests, ok \in BOOLEAN : QueryRetrieve(r, ok)
    \/ \E r \in Requests, g, st \in BOOLEAN, ans \in LLMAnswers :
          QueryGenerate(r, g, ans, st)
    \/ \E e \in cache : CacheExpire(e)

SpecCache == Init /\ [][NextCache]_vars

\* ================================================================== claims

\* C1: once a mutation of a collection has written the dense index and its
\* cache invalidation has removed the keys, every entry that a later cache
\* hit can return was computed from a dense-index state at least as new as
\* that mutation.
C1_CacheHitNotOlderThanInvalidation ==
    \A e \in cache : e.ver >= invalidatedVer[e.project]

\* C2: when the DELETE endpoint returns success for document D, the dense
\* index holds no chunk of D and none of the entries that were cached for the
\* collection when the request began is still in the cache.
C2_RemoveLeavesNoChunkNoCacheEntry ==
    [][\A d \in Docs :
          (del[d].pc = "row" /\ del'[d].pc = "done") =>
             /\ ~ \E c \in dense'[documents[d].project_id] : c.document_id = d
             /\ del[d].before \cap cache' = {}]_vars

\* C3: in every reachable state every chunk in the dense index has a
\* document_id whose Document row exists.
C3_ChunksReferToExistingDocument ==
    \A p \in Projects : \A c \in dense[p] : DocExists(c.document_id)

\* No ingestion task, remove request or rebuild is queued or running.
Quiescent ==
    /\ \A d \in Docs : task[d].pc \in {"none", "done"} /\ del[d].pc \in {"idle", "done"}
    /\ \A p \in Projects : rebuildQueue[p] = 0
    /\ \A b \in Rebuilders : rebuilder[b].pc = "idle"

\* The snapshot that a rebuild of the current dense index would leave.
SnapshotOf(chunks) == IF chunks = {} THEN NoBlob ELSE [present |-> TRUE, docs |-> chunks]

\* C9: once every mutation and every triggered rebuild has finished, the
\* stored sparse snapshot is built from exactly the chunks in the dense
\* index, and is absent when there are none; stated for the runs in which no
\* external call failed, whatever the order of the steps.
C9_SparseEventuallyConsistent ==
    (Quiescent /\ faults = 0) => \A p \in Projects : bm25blob[p] = SnapshotOf(dense[p])

\* A snapshot is absent, or the whole chunk set some rebuild has read.
WholeSnapshot(p, b) == ~ b.present \/ b.docs \in rebuildReads[p]

\* C10: the snapshot a query can load is absent or equal to the complete
\* chunk set that the dense index held when some earlier rebuild read it,
\* both in the blob store and in the hands of a query that loaded it while
\* rebuilds went on.
C10_SnapshotIsWholeAndPast ==
    /\ \A p \in Projects : WholeSnapshot(p, bm25blob[p])
    /\ \A r \in Requests : qry[r].pc # "idle" => WholeSnapshot(qry[r].project, qry[r].bm25)

\* C10 witness: a query retrieves with the snapshot it loaded before a
\* rebuild replaced it by a newer one.
C10_Witness ==
    \E r \in Requests :
        /\ qry[r].pc = "retrieve"
        /\ qry[r].bm25.present
        /\ bm25blob[qry[r].project].present
        /\ qry[r].bm25 # bm25blob[qry[r].project]

\* C11: a rebuild that read zero chunks leaves no blob when its storage call
\* succeeded and leaves the blob as it was when the call failed, so it never
\* writes; and a stored snapshot is never one built from the empty chunk set.
C11_EmptyRebuildDeletesBlob ==
    [][/\ \A p \in Projects : bm25blob'[p].present => bm25blob'[p].docs # {}
       /\ \A b \in Rebuilders :
             (rebuilder[b].pc = "write" /\ rebuilder'[b].pc = "idle"
                                       /\ rebuilder[b].all_docs = {}) =>
                bm25blob'[rebuilder[b].project] =
                    IF faults' = faults THEN NoBlob ELSE bm25blob[rebuilder[b].project]
       /\ \A d \in Docs :
             (task[d].pc = "rebuild_write" /\ task'[d].pc = "done"
                                          /\ task[d].all_docs = {}) =>
                bm25blob'[documents[d].project_id] =
                    IF faults' = faults THEN NoBlob
                                        ELSE bm25blob[documents[d].project_id]]_vars

\* C11 witness: after an ingestion and a removal, with no failure, the
\* rebuild found the collection empty and the snapshot is gone.
C11_Witness ==
    /\ Quiescent
    /\ faults = 0
    /\ denseVer[ActiveProject] >= 2
    /\ dense[ActiveProject] = {}
    /\ {} \in rebuildReads[ActiveProject]
    /\ ~ bm25blob[ActiveProject].present

\* C12: when the snapshot is absent, or cannot be downloaded or unpickled,
\* the load gives "absent" and no retriever, the query goes on (only the
\* rewrite call can end it at that point), and what it retrieves is the
\* dense top k alone: the fixed answer for an empty collection, otherwise k
\* chunks of the dense index, or all of them when there are fewer.
C12_SparseAbsentIsDenseOnly ==
    [][\A r \in Requests :
          /\ (qry[r].pc = "rewrite" /\ qry'[r].pc = "retrieve") =>
                /\ qry'[r].load \in {"loaded", "absent", "failed"}
                /\ qry'[r].load = "loaded" <=> qry'[r].bm25.present
                /\ ~ bm25blob[qry[r].project].present => qry'[r].load # "loaded"
          /\ (qry[r].pc = "rewrite" /\ qry'[r].pc = "raised") => qry'[r].err = "rewrite"
          /\ (qry[r].pc = "retrieve" /\ qry[r].load \in {"absent", "failed"}
                                     /\ qry'[r].pc # "retrieve") =>
                LET D == dense[qry[r].project] IN
                \/ qry'[r].pc = "raised" /\ qry'[r].err = "retrieve"
                \/ D = {} /\ qry'[r].pc = "returned" /\ qry'[r].answer = NoInfoAnswer
                \/ D # {} /\ qry'[r].pc = "generate" /\ qry'[r].final_docs \in TopKSets(D)]_vars

\* C12 witness: the snapshot is in the store, its load failed, and the query
\* is generating from what the dense retriever alone returned.
C12_Witness ==
    \E r \in Requests :
        /\ qry[r].pc = "generate"
        /\ qry[r].load = "failed"
        /\ bm25blob[qry[r].project].present
        /\ qry[r].final_docs # {}

\* C13: a one-shot query that finds, through a connected cache client, an
\* entry for its (collection, query text) returns the answer and the sources
\* of that entry at once: it loads no snapshot, makes no rewrite, retrieval
\* or generation step afterwards, and the cache is left as it was.
C13_CacheHitSkipsEverything ==
    [][\A r \in Requests :
          /\ (qry[r].pc = "idle" /\ qry'[r].pc # "idle") =>
                LET hits == CacheGet(cache, qry'[r].project, qry'[r].message) IN
                /\ (hits # {} /\ qry'[r].redis /\ qry'[r].pc # "raised") =>
                      /\ qry'[r].hit
                      /\ qry'[r].pc = "returned"
                      /\ \E e \in hits : /\ qry'[r].answer = JsonLoadsResult(e.value).answer
                                          /\ qry'[r].sources = JsonLoadsResult(e.value).sources
                      /\ qry'[r].load = "none"
                      /\ qry'[r].final_docs = {}
                      /\ cache' = cache
                /\ qry'[r].hit => hits # {}
          /\ qry[r].hit => qry'[r] = qry[r]]_vars

\* C13 witness: a query returned from the cache an entry that another
\* request had computed.
C13_Witness ==
    \E r \in Requests :
        /\ qry[r].hit
        /\ qry[r].pc = "returned"
        /\ \E e \in cache : /\ e.by # r
                              /\ JsonLoadsResult(e.value).answer = qry[r].answer
                              /\ JsonLoadsResult(e.value).sources = qry[r].sources
                              /\ e.value.sources # {}

\* ---------------------------------------------------- claims on streaming
RECURSIVE Concat(_)
\* The concatenation of a sequence of fragments, in order.
Concat(tokens) == IF tokens = <<>> THEN <<>> ELSE Head(tokens) \o Concat(Tail(tokens))

EventNames(r) == [i \in 1..Len(strm[r].events) |-> strm[r].events[i].event]
Positions(r, name) == {i \in 1..Len(strm[r].events) : strm[r].events[i].event = name}
AssistantRows(r) ==
    {i \in 1..Len(messages) : messages[i].request = r /\ messages[i].role = "assistant"}

\* The generator ran to its end with the consumer taking every event.
StreamedToEnd(r) == strm[r].pc = "done" /\ strm[r].stopped = "no"

\* C4: every event sequence of a stream that ran to its end, with or without
\* a failure of retrieval or generation, begins with the one start event,
\* which carries the conversation id, and ends with the one end event; no
\* sequence ever has an event after end or a second start.
C4_StartFirstEndLast ==
    \A r \in Requests :
        /\ \A i \in Positions(r, "start") : i = 1 /\ strm[r].events[i].data = strm[r].chat_id
        /\ \A i \in Positions(r, "end") : i = Len(strm[r].events)
        /\ strm[r].events # <<>> => strm[r].events[1].event = "start"
        /\ strm[r].pc = "done" =>
              /\ Cardinality(Positions(r, "start")) = 1
              /\ Cardinality(Positions(r, "end")) = 1

\* C4 witness: a stream ran to its end although the generation failed after
\* a token.
C4_Witness ==
    \E r \in Requests :
        /\ StreamedToEnd(r)
        /\ Positions(r, "token") # {}
        /\ Positions(r, "error") # {}

\* C5 as claimed: every event sequence of a stream that ran to its end holds
\* exactly one sources event, after start and before every token and end.
C5_ExactlyOneSourcesEvent ==
    \A r \in Requests :
        StreamedToEnd(r) =>
            /\ Cardinality(Positions(r, "sources")) = 1
            /\ \A i \in Positions(r, "sources") :
                  /\ \A j \in Positions(r, "start") : j < i
                  /\ \A j \in Positions(r, "token") \cup Positions(r, "end") : i < j

\* C5 amended: a sources event is always the second event, so there is at
\* most one and it follows start and precedes every token, error and end;
\* there is one exactly when stream_query returned; a stream that ran to its
\* end without one is start, error, end.
C5_SourcesOnlyWhenStreamQueryReturned ==
    \A r \in Requests :
        /\ \A i \in Positions(r, "sources") : i = 2
        /\ Positions(r, "sources") # {} <=> strm[r].generator # "none"
        /\ (StreamedToEnd(r) /\ Positions(r, "sources") = {}) =>
               EventNames(r) = <<"start", "error", "end">>

\* C5 witness: the rewrite or the retrieval failed and the stream ran to its
\* end without a sources event.
C5_Witness ==
    \E r \in Requests :
        /\ StreamedToEnd(r)
        /\ EventNames(r) = <<"start", "error", "end">>

StreamOver(r) == strm[r].pc \in {"y_end", "done", "closed"}
Delivered(r) ==
    \/ chat[r].pc = "done"
    \/ StreamOver(r) /\ Positions(r, "token") # {}

C14_StreamIgnoresCache ==
    [][\A r \in Requests :
          strm'[r] # strm[r] =>
              /\ cache' = cache
              /\ (strm[r].pc = "y_start" /\ strm'[r].pc = "y_sources") =>
                    /\ strm'[r].generator \in {"fixed", "llm"}
                    /\ strm'[r].generator = "fixed" =>
                          dense[ActiveProject] = {} /\ strm'[r].sources = {}
                    /\ strm'[r].generator = "llm" =>
                          \E F \in Retrieved(NoBlob, dense[ActiveProject])
                                    \cup Retrieved(bm25blob[ActiveProject], dense[ActiveProject]) :
                              F # {} /\ strm'[r].sources \in SourceSets(F)]_vars

\* C14 witness: a stream generates tokens with the model while the cache
\* holds an entry for the same collection and query.
C14_Witness ==
    \E r \in Requests :
        /\ strm[r].generator = "llm"
        /\ Positions(r, "token") # {}
        /\ CacheGet(cache, ActiveProject, strm[r].message) # {}

C16_RewriteFailureFallsBack ==
    \A r \in Requests : qry[r].err # "rewrite" /\ strm[r].err # "rewrite"

\* C17 as claimed: no failure of the cache backend ends a one-shot query.
C17_CacheFailureNeverFailsQuery ==
    \A r \in Requests : qry[r].err \notin {"cache_get", "cache_set"}

\* C18 as claimed: when a mutation that wrote the dense index is reported
\* successful (status COMPLETED for an ingestion that added chunks, the
\* success response for a removal that deleted chunks), an invalidation that
\* removed the collection's cache entries has completed after that write.
C18_InvalidatedBeforeSuccess ==
    [][\A d \in Docs :
          /\ (documents[d].status # "COMPLETED" /\ documents'[d].status = "COMPLETED"
                  /\ task[d].wver > 0) =>
                invalidatedVer[documents[d].project_id] >= task[d].wver
          /\ (del[d].pc = "row" /\ del'[d].pc = "done" /\ del[d].wver > 0) =>
                invalidatedVer[documents[d].project_id] >= del[d].wver]_vars

\* The changes of a Document row: created PENDING, PENDING to PROCESSING,
\* PROCESSING to COMPLETED or FAILED, and the deletion of the row.
Lifecycle ==
    {<<"NONE", "PENDING">>, <<"PENDING", "PROCESSING">>,
     <<"PROCESSING", "COMPLETED">>, <<"PROCESSING", "FAILED">>}
        \cup (Statuses \X {"DELETED"})

\* C19: a document's status changes only along PENDING, PROCESSING, then
\* COMPLETED or FAILED, which are final until the row is deleted; the
\* changes to PROCESSING, COMPLETED and FAILED are steps of the document's
\* ingestion task, so no query, removal or rebuild step makes one.
C19_StatusLifecycle ==
    [][\A d \in Docs :
          documents'[d].status # documents[d].status =>
              /\ <<documents[d].status, documents'[d].status>> \in Lifecycle
              /\ documents'[d].status \in {"PROCESSING", "COMPLETED", "FAILED"} =>
                    /\ task'[d] # task[d]
                    /\ del' = del /\ rebuilder' = rebuilder /\ qry' = qry
              /\ documents'[d].status = "DELETED" => del'[d].pc = "done"]_vars

\* C19 witness: a document went through its task and failed, and a removal
\* request for it and a query were served meanwhile.
C19_Witness ==
    \E d \in NewDocs :
        /\ documents[d].status = "FAILED"
        /\ task[d].pc = "done"
        /\ del[d].pc = "row"
        /\ \E r \in Requests : qry[r].pc = "returned"

\* C20 as claimed: a task that has ended has left its document, if the row
\* still exists, COMPLETED or FAILED, and when the step that ends the task is
\* one in which the loading, the dense write or the storage call of the
\* sparse rebuild failed, the document is left FAILED.
C20_EveryFailureEndsFailed ==
    [][\A d \in Docs :
          (task[d].pc # "done" /\ task'[d].pc = "done" /\ DocExists(d)) =>
              /\ documents'[d].status \in {"COMPLETED", "FAILED"}
              /\ faults' # faults => documents'[d].status = "FAILED"]_vars

\* C21 as claimed: every removal request that deleted chunks from the dense
\* index ends with one more rebuild task in the queue, and every ingestion
\* that ends COMPLETED has run its rebuild.
C21_RebuildAfterEveryMutation ==
    [][\A d \in Docs :
          /\ (del[d].pc = "row" /\ del'[d].pc # "row" /\ del[d].wver > 0) =>
                rebuildQueue'[documents[d].project_id] =
                    rebuildQueue[documents[d].project_id] + 1
          /\ (documents[d].status # "COMPLETED" /\ documents'[d].status = "COMPLETED") =>
                task[d].pc = "rebuild_write"]_vars

\* C22 as claimed: when delete_document_chunks(D) returns, with or without
\* having found chunks, the dense index holds no chunk whose document_id is D.
C22_DeleteChunksRemovesAll ==
    [][\A d \in Docs :
          (del[d].pc \in {"idle", "chunks"} /\ del'[d].pc \in {"invalidate", "row"}) =>
              ~ \E c \in dense'[documents[d].project_id] : c.document_id = d]_vars

C24_UnknownChatIdRefused ==
    \A r \in Requests :
        /\ (chat[r].pc # "idle" /\ chat[r].chat_id # NoChat
                /\ ~ SessionExists(sessions, chat[r].chat_id)) =>
              /\ qry[r].pc = "idle"
              /\ ~ \E e \in cache : e.by = r
        /\ (strm[r].pc # "idle" /\ ~ SessionExists(sessions, strm[r].chat_id)) =>
              /\ strm[r].pc # "crashed"
              /\ ~ \E i \in 1..Len(messages) : messages[i].request = r

\* C25 as claimed: a one-shot query never returns the empty string as its
\* answer; when the model gives no content it returns the fixed answer.
C25_EmptyAnswerBecomesFallback ==
    \A r \in Requests : qry[r].pc = "returned" => qry[r].answer # <<>>

\* An ingestion task of the collection has checked, and fetched if needed,
\* the locally hosted model.
ModelConfirmed(p) == \E d \in Docs : documents[d].project_id = p /\ task[d].ensured

\* C26 as claimed: in a collection that uses the locally hosted model, a
\* query whose rewrite call to the model has been made was preceded by a
\* check of the model in that collection.
C26_LocalModelConfirmedBeforeUse ==
    \A r \in Requests :
        (llm_provider(qry[r].project) = "ollama"
            /\ qry[r].pc \in {"retrieve", "generate"}) => ModelConfirmed(qry[r].project)

\* The task of document d took the empty-load path and is in its rebuild.
EmptyLoadRebuilding(d) ==
    task[d].chunks = {} /\ task[d].pc \in {"rebuild_read", "rebuild_write"}

\* C27 as claimed: an ingestion whose loading yields no text or no chunks
\* never ends in FAILED.
C27_EmptyIngestionNeverFailed ==
    [][\A d \in Docs :
          (EmptyLoadRebuilding(d) /\ task'[d] # task[d]) =>
              documents'[d].status # "FAILED"]_vars

\* C27 amended: the empty load itself raises nothing and changes neither the
\* dense index, the answer cache nor the document's status; the rebuild that
\* follows leaves the dense index and the cache as they were, and the task
\* ends COMPLETED, if its row still exists, unless the rebuild's storage call
\* raised, the only way it ends FAILED.
C27_EmptyIngestionSkipsIndexing ==
    [][\A d \in Docs :
          /\ (task[d].pc = "load" /\ task'[d].pc = "rebuild_read") =>
                /\ task'[d].chunks = {}
                /\ faults' = faults
                /\ dense' = dense /\ cache' = cache /\ documents' = documents
          /\ (EmptyLoadRebuilding(d) /\ task'[d] # task[d]) =>
                /\ dense' = dense /\ cache' = cache
                /\ documents'[d].status = "FAILED" => faults' # faults
                /\ (task'[d].pc = "done" /\ faults' = faults
                        /\ documents'[d].status \in Statuses) =>
                       documents'[d].status = "COMPLETED"]_vars

\* An empty-load ingestion has completed in a collection that holds chunks
\* and a cached answer.
C27_Witness ==
    \E d \in NewDocs :
        /\ task[d].pc = "done" /\ task[d].chunks = {} /\ task[d].wver = 0
        /\ documents[d].status = "COMPLETED"
        /\ dense[documents[d].project_id] # {}
        /\ \E e \in cache : e.project = documents[d].project_id

\* C28: a step of a one-shot query changes the answer cache only when it is
\* the step that returns a generated answer, and then the cache holds this
\* query's entry with that answer; a step that ends the query with an
\* exception leaves the cache as it was.
C28_FailedQueryLeavesCache ==
    [][\A r \in Requests :
          qry'[r] # qry[r] =>
              /\ cache' # cache =>
                    /\ qry[r].pc = "generate" /\ qry'[r].pc = "returned"
                    /\ \E e \in cache' :
                          /\ e.by = r /\ e.live
                          /\ e.value = JsonDumpsResult(qry'[r].answer, qry'[r].sources)
              /\ qry'[r].pc = "raised" => cache' = cache]_vars

\* A query whose generation raised, in a collection that holds another
\* request's cached answer.
C28_Witness ==
    \E r \in Requests :
        /\ qry[r].pc = "raised" /\ qry[r].err = "generate" /\ qry[r].redis
        /\ \E e \in cache : e.project = qry[r].project /\ e.by # r

\* Indices of the ChatMessage rows a request added with a given role.
RowsOf(r, role) ==
    {i \in 1..Len(messages) : messages[i].request = r /\ messages[i].role = role}

\* C29 as claimed: after every finished query request, one-shot or streaming,
\* successful or failed, the request has added as many assistant messages as
\* user messages, the assistant message after the user message and in the
\* same session.
C29_LogMadeOfPairs ==
    \A r \in Requests :
        (chat[r].pc \in {"done", "failed"} \/ StreamedToEnd(r)) =>
            /\ Cardinality(RowsOf(r, "user")) = Cardinality(RowsOf(r, "assistant"))
            /\ \A i \in RowsOf(r, "user") :
                  \E j \in RowsOf(r, "assistant") :
                      j > i /\ messages[j].session_id = messages[i].session_id

\* C30: a stream's event sequence holds an error event if and only if the
\* rewrite, the retrieval or the generation raised; it then holds exactly
\* one, whose data is the fixed message, and every sources and token event
\* comes before it.
C30_ErrorEventIffRaised ==
    \A r \in Requests :
        /\ Positions(r, "error") # {} <=> strm[r].err \in {"rewrite", "retrieve", "generate"}
        /\ Cardinality(Positions(r, "error")) <= 1
        /\ \A i \in Positions(r, "error") :
              /\ strm[r].events[i].data = ErrorMessage
              /\ \A j \in Positions(r, "sources") \cup Positions(r, "token") : j < i

\* A stream that sent its sources and one token before the generation
\* raised, read to its end.
C30_Witness ==
    \E r \in Requests :
        /\ StreamedToEnd(r) /\ strm[r].err = "generate"
        /\ Positions(r, "sources") # {}
        /\ Cardinality(Positions(r, "token")) = 1
        /\ Cardinality(Positions(r, "error")) = 1

\* C32 as claimed: a step that deletes the sparse snapshot of a collection is
\* taken only when the dense index of that collection holds no chunk.
C32_SnapshotDeletedOnlyWhenEmpty ==
    [][\A p \in Projects :
          (bm25blob[p].present /\ ~ bm25blob'[p].present) => dense[p] = {}]_vars

\* --------------------------------------------------- collection isolation
\* str(project.id): a UUID, dashes at fixed places
ProjectUuid(p) == IF p = "p1" THEN <<"1", "-", "a">> ELSE <<"1", "-", "b">>

\* RAGService.__init__, line 54: the Chroma collection of the project
collection_name(p) == <<"proj_">> \o SelectSeq(ProjectUuid(p), LAMBDA ch : ch # "-")

\* RAGService._get_bm25_retriever_storage_key
_get_bm25_retriever_storage_key(p) ==
    <<"_internal/">> \o ProjectUuid(p) \o <<"/bm25_retriever.pkl">>

\* query, line 246: the Redis key of (project, message)
cache_key(p, m) == <<"rag_cache:">> \o ProjectUuid(p) \o <<":", m>>

\* _invalidate_query_cache, line 91: the key matches rag_cache:<project>:*
MatchesScanPattern(key, p) ==
    LET prefix == <<"rag_cache:">> \o ProjectUuid(p) \o <<":">> IN
    Len(key) >= Len(prefix) /\ SubSeq(key, 1, Len(prefix)) = prefix

\* the other collection and what it holds from the start
OtherProject == "p2"
OtherEntry == [project |-> OtherProject, message |-> "m1",
               value |-> JsonDumpsResult(<<"z">>, {[content |-> "t1", source |-> "d0"]}),
               ver |-> 1, by |-> "none", live |-> TRUE]

\* The other project holds document d0, its chunks, its snapshot and a
\* cached answer to m1; the active project is empty.
InitIsolation ==
    /\ documents = [d \in Docs |->
          IF d = "d0" THEN [status |-> "COMPLETED", project_id |-> OtherProject]
                      ELSE [status |-> "NONE", project_id |-> NoProject]]
    /\ dense = [p \in Projects |-> IF p = OtherProject THEN LoadedChunks("d0") ELSE {}]
    /\ bm25blob = [p \in Projects |->
          IF p = OtherProject THEN [present |-> TRUE, docs |-> LoadedChunks("d0")]
                              ELSE NoBlob]
    /\ task = [d \in Docs |-> IF d = "d0" THEN [IdleTask EXCEPT !.pc = "done"] ELSE IdleTask]
    /\ denseVer = [p \in Projects |-> IF p = OtherProject THEN 1 ELSE 0]
    /\ invalidatedVer = [p \in Projects |-> IF p = OtherProject THEN 1 ELSE 0]
    /\ rebuildReads = [p \in Projects |->
          IF p = OtherProject THEN {LoadedChunks("d0")} ELSE {}]
    /\ cache = {OtherEntry}
    /\ del = [d \in Docs |-> IdleDelete]
    /\ rebuildQueue = [p \in Projects |-> 0]
    /\ rebuilder = [b \in Rebuilders |-> IdleRebuilder]
    /\ qry = [r \in Requests |-> IdleQuery]
    /\ faults = 0
    /\ sessions = InitSessions
    /\ messages = <<>>
    /\ chat = [r \in Requests |-> IdleChat]
    /\ strm = [r \in Requests |-> IdleStream]
    /\ NoRanking

\* Every operation on the active project: ingestion, removal, rebuild, query.
NextIsolation ==
    \/ \E d \in NewDocs : UploadDocument(d, ActiveProject)
    \/ \E d \in Docs : TaskStart(d)
    \/ \E d \in Docs, o \in {"raise", "empty", "chunks"} : TaskLoad(d, o)
    \/ \E d \in Docs, ok \in BOOLEAN : TaskAdd(d, ok)
    \/ \E d \in Docs, o \in {"done", "skipped"} : TaskInvalidate(d, o)
    \/ \E d \in Docs, ok \in BOOLEAN : TaskRebuildRead(d, ok)
    \/ \E d \in Docs, o \in {"ok", "false", "raise"} : TaskRebuildWrite(d, o)
    \/ \E d \in NewDocs, ok \in BOOLEAN : DeleteStart(d, ok)
    \/ \E d \in NewDocs, ok \in BOOLEAN : DeleteChunks(d, ok)
    \/ \E d \in NewDocs, o \in {"done", "skipped"} : DeleteInvalidate(d, o)
    \/ \E d \in NewDocs, ok \in BOOLEAN : DeleteRecord(d, ok)
    \/ \E b \in Rebuilders, ok \in BOOLEAN : RebuildStart(b, ActiveProject, ok)
    \/ \E b \in Rebuilders, o \in {"ok", "false", "raise"} : RebuildWrite(b, o)
    \/ \E r \in Requests, m \in Messages, rd, ok \in BOOLEAN :
          QueryCall(r, ActiveProject, m, rd, ok)
    \/ \E r \in Requests, l, h \in BOOLEAN : QueryRewrite(r, l, h)
    \/ \E r \in Requests, ok \in BOOLEAN : QueryRetrieve(r, ok)
    \/ \E r \in Requests, g, s \in BOOLEAN, a \in LLMAnswers : QueryGenerate(r, g, a, s)

SpecIsolation == InitIsolation /\ [][NextIsolation]_vars

\* C33: the names under which the two projects keep their chunks, their
\* snapshot and their cached answers are distinct, and the scan pattern of
\* one matches no key of the other; while ingestions, removals,
\* invalidations, rebuilds and queries run on the active project, the other
\* project's chunks, snapshot and cache entries stay as they were, and no
\* query on the active project retrieves a chunk, cites a document or returns
\* a cached answer of the other project.
C33_CollectionIsolation ==
    /\ \A a, b \in Projects : a # b =>
          /\ collection_name(a) # collection_name(b)
          /\ _get_bm25_retriever_storage_key(a) # _get_bm25_retriever_storage_key(b)
          /\ \A m \in Messages : ~ MatchesScanPattern(cache_key(b, m), a)
    /\ dense[OtherProject] = LoadedChunks("d0")
    /\ bm25blob[OtherProject] = [present |-> TRUE, docs |-> LoadedChunks("d0")]
    /\ {e \in cache : e.project = OtherProject} = {OtherEntry}
    /\ \A r \in Requests :
          /\ \A c \in qry[r].final_docs \cup qry[r].bm25.docs : c.document_id # "d0"
          /\ \A s \in qry[r].sources : s.source # "d0"
          /\ qry[r].answer # <<"z">>

\* A query on the active project answered from its own cache entry for the
\* message the other project also has an entry for, after an ingestion into
\* the active project invalidated its cache and rebuilt its snapshot.
C33_Witness ==
    \E r \in Requests :
        /\ qry[r].pc = "returned" /\ qry[r].hit /\ qry[r].message = OtherEntry.message
        /\ dense[ActiveProject] # {} /\ bm25blob[ActiveProject].present
        /\ invalidatedVer[ActiveProject] > 0
        /\ qry[r].sources # {}

\* C34 as claimed: every ChatMessage a query request on a project has added
\* is in a session of that project.
C34_MessagesStayInProject ==
    \A i \in 1..Len(messages) :
        \E x \in sessions :
            x.id = messages[i].session_id /\ x.project_id = ActiveProject

\* C35 as claimed: whenever the status of a document is FAILED, the dense
\* index holds no chunk of it.
C35_FailedLeavesNoChunks ==
    \A d \in Docs :
        documents[d].status = "FAILED" =>
            ~ \E c \in dense[documents[d].project_id] : c.document_id = d

\* C36: every entry that enters the answer cache is written by a one-shot
\* query that is generating from at least one retrieved chunk, and carries
\* a non-empty source list; a query that returns the fixed answer of an
\* empty retrieval leaves the cache as it was; after every step every entry
\* in the cache has a non-empty source list.
C36_OnlyGroundedAnswersCached ==
    [][/\ \A e \in cache' \ cache :
             e.live =>
                /\ e.by \in Requests
                /\ qry[e.by].pc = "generate" /\ qry[e.by].final_docs # {}
       /\ \A r \in Requests :
             (qry[r].pc = "retrieve" /\ qry'[r].pc = "returned") =>
                 /\ qry'[r].answer = NoInfoAnswer
                 /\ cache' = cache
       /\ \A e \in cache' : JsonLoadsResult(e.value).sources # {}]_vars

\* A query with the cache in use returned the fixed answer of an empty
\* retrieval and left no entry, while the cache holds the entry of another
\* query.
C36_Witness ==
    \E r \in Requests :
        /\ qry[r].pc = "returned" /\ qry[r].answer = NoInfoAnswer
        /\ qry[r].redis /\ ~ qry[r].hit
        /\ ~ \E e \in cache : e.by = r
        /\ \E e \in cache : e.live /\ e.by # r

\* ------------------------------------------- the source list of a ranking
InitSources ==
    /\ Seeded(TRUE)
    /\ cache = {}
    /\ del = [d \in Docs |-> IdleDelete]
    /\ rebuildQueue = [p \in Projects |-> 0]
    /\ rebuilder = [b \in Rebuilders |-> IdleRebuilder]
    /\ qry = [r \in Requests |-> IdleQuery]
    /\ faults = 0
    /\ sessions = InitSessions
    /\ messages = <<>>
    /\ chat = [r \in Requests |-> IdleChat]
    /\ strm = [r \in Requests |-> IdleStream]
    /\ ranking \in Rankings
    /\ citations = NotComputed

NextSources == MakeSources

SpecSources == InitSources /\ [][NextSources]_vars

Range(seq) == {seq[i] : i \in 1..Len(seq)}

\* The place of the first chunk with this text in the ranked list.
FirstOccurrence(text) ==
    CHOOSE i \in 1..Len(ranking) :
        ranking[i].text = text /\ \A j \in 1..(i - 1) : ranking[j].text # text

\* C31: the source list made from a ranked list of retrieved chunks has one
\* entry for every chunk text in the list and no entry for any other text,
\* no two entries with the same content, and its entries are in the order
\* in which their texts first occur in the ranking; as a set it is one of
\* the source sets the queries of the model return.
C31_SourcesDeduplicatedInOrder ==
    LET sources == citations.sources IN
    citations.made =>
        /\ {sources[i].content : i \in 1..Len(sources)} =
               {ranking[i].text : i \in 1..Len(ranking)}
        /\ \A i, j \in 1..Len(sources) :
              i # j => sources[i].content # sources[j].content
        /\ \A i, j \in 1..Len(sources) :
              i < j => FirstOccurrence(sources[i].content)
                         < FirstOccurrence(sources[j].content)
        /\ Range(sources) \in SourceSets(Range(ranking))

\* The source list of a ranking of three chunks in which the first and the
\* last, of different documents, have the same text.
C31_Witness ==
    /\ citations.made
    /\ Len(ranking) = 3 /\ Len(citations.sources) = 2
    /\ ranking[1].text = ranking[3].text
    /\ ranking[1].document_id # ranking[3].document_id

====
